---- MODULE Spec2Model ----
(***************************************************************************)
(* Model of ralph-dashboard/server.py: the Mission Control HTTP server.    *)
(*                                                                         *)
(* The current log is a byte sequence written by an external process.      *)
(* Bytes are drawn from a small alphabet on which json.loads is modelled   *)
(* exactly: "1" (a digit), "-" (a minus sign) and the line terminator.     *)
(* A stripped line decodes iff it is  -?1+  (a JSON integer); "-" alone,   *)
(* "1-", "--1" ... raise JSONDecodeError; the empty line is blank.         *)
(***************************************************************************)
EXTENDS Integers, Sequences, FiniteSets, TLC

\* ---------------------------------------------------------------- bounds
MaxBytes == 2          \* largest size of the current log, in bytes
MaxGrow == 4           \* the same, for the writer that only appends
MaxLog == 6            \* the same, for a log that is not written any more
MaxStart == 1          \* largest ?offset= a subscriber supplies
MaxConns == 2          \* connections made to the server in one behaviour

NL == "\n"
Char == {"1", "-", NL}
Whitespace == {NL}

VARIABLES
  present,       \* CURRENT_LOG.exists()
  content,       \* bytes of CURRENT_LOG (<<>> when absent)
  backlog,       \* connections waiting in the listen queue, oldest first
  nconn,         \* connections made so far
  pc,            \* where the single server thread is
  polled,        \* what this iteration's poll found: "missing" | "same" | "read"
  missedAt,      \* events emitted when a poll last found no file; -1 if none did
  start,         \* the offset the subscriber asked for (?offset=)
  offset,        \* stream_log: offset
  last_size,     \* stream_log: last_size
  current_size,  \* stream_log: current_size
  emitted,       \* event frames written to the subscriber, in order
  pos,           \* position of the open file f (bytes read so far)
  lines_read,    \* lines the iteration over f has returned so far
  pending,       \* bytes read after the last line returned
  handle,        \* "live" while f is the file CURRENT_LOG names, "unlinked"
                 \* once that file has been deleted under f
  peer,          \* the client's socket: "connected", "gone" (the peer
                 \* has closed or reset it) or "broken" (a write to it has
                 \* raised inside the try of stream_log)
  served,        \* responses of finished non-stream requests, in order
  logdir,        \* LOG_DIR.exists()
  files          \* the regular files below the repository root, other than
                 \* the current log, as normalised paths

vars == <<present, content, backlog, nconn, pc, polled, missedAt, start, offset,
          last_size, current_size, emitted, pos, lines_read, pending, handle,
          peer, served, logdir, files>>

archVars == <<logdir, files>>
fileVars == <<present, content>>
readVars == <<pos, lines_read, pending, handle>>
sessionVars ==
  <<polled, missedAt, start, offset, last_size, current_size, emitted, readVars>>

\* ------------------------------------------------------- text operators
RECURSIVE splitAt(_, _)
\* Lines of a byte sequence, each with its terminator; `cur` is the line
\* being accumulated.  An unterminated non-empty tail is a line too.
splitAt(bytes, cur) ==
  IF bytes = <<>> THEN (IF cur = <<>> THEN <<>> ELSE <<cur>>)
  ELSE IF Head(bytes) = NL
       THEN <<Append(cur, NL)>> \o splitAt(Tail(bytes), <<>>)
       ELSE splitAt(Tail(bytes), Append(cur, Head(bytes)))

readlines(bytes) == splitAt(bytes, <<>>)

RECURSIVE lstrip(_)
lstrip(s) ==
  IF s # <<>> /\ Head(s) \in Whitespace THEN lstrip(Tail(s)) ELSE s

RECURSIVE rstrip(_)
rstrip(s) ==
  IF s # <<>> /\ s[Len(s)] \in Whitespace
  THEN rstrip(SubSeq(s, 1, Len(s) - 1)) ELSE s

strip(s) == rstrip(lstrip(s))

RECURSIVE digits(_)
\* value of a non-empty string of "1" digits
digits(s) == IF Len(s) = 1 THEN 1 ELSE 10 * digits(SubSeq(s, 1, Len(s) - 1)) + 1

AllOnes(s) == s # <<>> /\ \A k \in 1..Len(s) : s[k] = "1"

\* json.loads succeeds on s (no JSONDecodeError)
decodes(s) ==
  IF s # <<>> /\ Head(s) = "-" THEN AllOnes(Tail(s)) ELSE AllOnes(s)

\* json.loads(s) for a string on which it succeeds
loads(s) == IF Head(s) = "-" THEN 0 - digits(Tail(s)) ELSE digits(s)

RECURSIVE feed(_, _, _)
\* the lines and the pending bytes after `data` has been read: a line ends
\* with each newline
feed(done, cur, data) ==
  IF data = <<>> THEN [lines |-> done, pending |-> cur]
  ELSE IF Head(data) = NL
       THEN feed(Append(done, Append(cur, NL)), <<>>, Tail(data))
       ELSE feed(done, Append(cur, Head(data)), Tail(data))

RECURSIVE decodeLines(_)
\* the records of a list of lines: blank and undecodable lines are skipped
decodeLines(lines) ==
  IF lines = <<>> THEN <<>>
  ELSE LET line == strip(Head(lines)) IN
       (IF line # <<>> /\ decodes(line) THEN <<loads(line)>> ELSE <<>>)
         \o decodeLines(Tail(lines))

\* serve_log: the events list built from the current log
read_all(exists, bytes) == IF exists THEN decodeLines(readlines(bytes)) ELSE <<>>

\* ------------------------------------------------------ stream_log loop
Frame(i, event) == [index |-> i, event |-> event]

RECURSIVE sendNewAbort(_, _, _, _, _)
\* variant of sendNew: a line that fails to decode ends the loop
sendNewAbort(lines, i, off, out, budget) ==
  IF i >= Len(lines) THEN [offset |-> off, out |-> out, failed |-> FALSE]
  ELSE LET line == strip(lines[i + 1]) IN
       IF i >= off /\ line # <<>>
       THEN IF ~decodes(line)
            THEN [offset |-> off, out |-> out, failed |-> FALSE]
            ELSE IF budget = 0
                 THEN [offset |-> off, out |-> out, failed |-> TRUE]
                 ELSE sendNewAbort(lines, i + 1, i + 1,
                                   Append(out, Frame(i, loads(line))), budget - 1)
       ELSE sendNewAbort(lines, i + 1, off, out, budget)

RECURSIVE sendNew(_, _, _, _, _)
\* for i, line in enumerate(lines): ...   from position i (0-based) on.
\* `budget` is the number of socket writes that still succeed; the write
\* after that raises BrokenPipeError / ConnectionResetError and leaves the loop.
sendNew(lines, i, off, out, budget) ==
  IF i >= Len(lines) THEN [offset |-> off, out |-> out, failed |-> FALSE]
  ELSE LET line == strip(lines[i + 1]) IN
       IF i >= off /\ line # <<>> /\ decodes(line)
       THEN IF budget = 0
            THEN [offset |-> off, out |-> out, failed |-> TRUE]
            ELSE sendNew(lines, i + 1, i + 1,
                         Append(out, Frame(i, loads(line))), budget - 1)
       ELSE sendNew(lines, i + 1, off, out, budget)

\* how many writes can succeed: all of them while the peer is connected,
\* any number once it is gone
Budgets(n) == IF peer = "connected" THEN {n} ELSE 0..n

\* ----------------------------------------------------------- file names
\* A file name is a sequence of tokens, its last token being its extension;
\* a path is a sequence of names, relative to the repository root
\* (Path(__file__).parent.parent).
JSONL == ".jsonl"
TXT == ".txt"
UpName == <<"..">>
EmptyName == <<>>
LogDirName == <<"ralph-logs">>
CurrentName == <<"current-run", JSONL>>
Ralph1 == <<"ralph_", "1", JSONL>>
Ralph2 == <<"ralph_", "2", JSONL>>
Secret == <<"secret", JSONL>>
NotALog == <<"notalog", TXT>>

LOG_DIR == <<LogDirName>>
CURRENT_LOG == <<LogDirName, CurrentName>>
NoPath == << <<"?">> >>

\* str.endswith
endswith(name, suffix) == name # <<>> /\ name[Len(name)] = suffix

\* ---------------------------------------------------------- file system
Inside(name) == <<LogDirName, name>>
Outside(name) == <<name>>

\* the files that may exist next to the current log, and their bytes
CandidateFiles ==
  {Inside(Ralph1), Inside(Ralph2), Inside(Secret), Inside(NotALog), Outside(Secret)}

IsDir(path) == path = <<>> \/ (path = LOG_DIR /\ logdir)
IsFile(path) == path \in files \/ (path = CURRENT_LOG /\ present)

RECURSIVE walk(_, _)
\* the operating system's resolution of a path, component by component,
\* from directory cur; the walk never leaves the repository root
walk(path, cur) ==
  IF path = <<>> THEN cur
  ELSE IF ~IsDir(cur) THEN NoPath
  ELSE IF Head(path) = UpName
       THEN walk(Tail(path), IF cur = <<>> THEN <<>> ELSE SubSeq(cur, 1, Len(cur) - 1))
  ELSE IF Head(path) = EmptyName THEN walk(Tail(path), cur)
  ELSE walk(Tail(path), Append(cur, Head(path)))

resolve(path) == walk(path, <<>>)

\* Path.exists()
exists(path) == IsDir(resolve(path)) \/ IsFile(resolve(path))

FileBytes(path) ==
  IF path = CURRENT_LOG THEN content
  ELSE IF path = Inside(Ralph1) THEN <<"1", NL>>
  ELSE IF path = Inside(Ralph2) THEN <<NL, "1", NL>>
  ELSE IF path = Inside(Secret) THEN <<"1", "1", NL>>
  ELSE IF path = Outside(Secret) THEN <<"-", "1", NL>>
  ELSE <<"-", "1", "1", NL>>

\* do_GET, line 34: parsed.path.split("/")[-1], for the segments that
\* follow /api/log/
log_name(segs) == segs[Len(segs)]

\* line 131: LOG_DIR / log_name
log_path(segs) == LOG_DIR \o <<log_name(segs)>>

\* the tokens of file names in the order of their strings
TokenOrder ==
  <<"..", JSONL, TXT, "1", "2", "current-run", "notalog", "ralph-logs", "ralph_",
    "secret">>
rank(token) == CHOOSE k \in 1..Len(TokenOrder) : TokenOrder[k] = token

RECURSIVE nameLess(_, _)
\* a < b for two file names, as Python compares the paths of one directory
nameLess(a, b) ==
  IF b = <<>> THEN FALSE
  ELSE IF a = <<>> THEN TRUE
  ELSE IF Head(a) # Head(b) THEN rank(Head(a)) < rank(Head(b))
  ELSE nameLess(Tail(a), Tail(b))

\* line 119: LOG_DIR.glob("ralph_*.jsonl"), the names of the matching
\* entries of the log directory
glob ==
  {path[2] : path \in {f \in files \cup (IF present THEN {CURRENT_LOG} ELSE {}) :
                         /\ Len(f) = 2 /\ f[1] = LogDirName
                         /\ Len(f[2]) >= 2
                         /\ f[2][1] = "ralph_" /\ endswith(f[2], JSONL)}}

RECURSIVE sortedForward(_)
\* variant of sortedReverse: the names in ascending order
sortedForward(names) ==
  IF names = {} THEN <<>>
  ELSE LET least == CHOOSE n \in names : \A m \in names : m = n \/ nameLess(n, m)
       IN <<least>> \o sortedForward(names \ {least})

RECURSIVE sortedReverse(_)
\* line 119: sorted(..., reverse=True)
sortedReverse(names) ==
  IF names = {} THEN <<>>
  ELSE LET greatest == CHOOSE n \in names : \A m \in names : m = n \/ nameLess(m, n)
       IN <<greatest>> \o sortedReverse(names \ {greatest})

\* lines 120-125: one entry of the listing (st_mtime is not modelled)
LogEntry(name) == [name |-> name, size |-> Len(FileBytes(Inside(name)))]

\* ------------------------------------------------------------- requests
StreamReq(o) == [kind |-> "stream", offset |-> o]
LogReq == [kind |-> "log", offset |-> 0]
Requests == {StreamReq(o) : o \in 0..MaxStart} \cup {LogReq}

\* GET /api/log/<segs joined by "/">
ArchivedReq(segs) == [kind |-> "archived", segs |-> segs]
ArchivedRequests ==
  {ArchivedReq(segs) : segs \in {<<Ralph1>>, <<Secret>>, <<NotALog>>, <<UpName>>,
                                 <<EmptyName>>, <<UpName, Secret>>,
                                 <<Ralph1, Secret>>, <<UpName, NotALog>>}}

\* GET /api/logs
ListReq == [kind |-> "list"]

\* everything a client of the archive may ask for
ArchiveRequests == ArchivedRequests \cup {ListReq, LogReq}

\* response headers
ContentJson == "Content-Type: application/json"
AllowOrigin == "Access-Control-Allow-Origin: *"
NoCache == "Cache-Control: no-cache"

\* a finished response: the request it answers, status line, headers, body
\* and the file the handler opened to produce it (NoPath if none)
Response(req, status, headers, body, file) ==
  [req |-> req, status |-> status, headers |-> headers, body |-> body,
   file |-> file]

\* the server has just started: nothing sent, no handler running
InitServer ==
  /\ present = FALSE
  /\ content = <<>>
  /\ pc = "accept"
  /\ polled = "none"
  /\ missedAt = -1
  /\ start = 0
  /\ offset = 0
  /\ last_size = 0
  /\ current_size = 0
  /\ emitted = <<>>
  /\ pos = 0
  /\ lines_read = <<>>
  /\ pending = <<>>
  /\ handle = "live"
  /\ peer = "connected"
  /\ served = <<>>
  /\ logdir = TRUE
  /\ files = {}

\* variant of read_data: only the bytes counted by the stat are read
read_dataStatSized ==
  LET n == IF current_size < Len(content) THEN current_size ELSE Len(content)
  IN IF handle = "live" /\ pos < n THEN SubSeq(content, pos + 1, n) ELSE <<>>

\* one read() of f: the bytes from its position to the end of the file
\* (the logs modelled are shorter than a buffer); nothing at or past the
\* end, and nothing more from an unlinked file, whose bytes f has been
\* given in full when it was unlinked (Delete)
read_data ==
  IF handle = "live" /\ pos < Len(content)
  THEN SubSeq(content, pos + 1, Len(content)) ELSE <<>>

\* ------------------------------------------------------ external writer
Create ==
  /\ ~present
  /\ present' = TRUE
  /\ content' = <<>>
  /\ UNCHANGED <<backlog, nconn, pc, sessionVars, peer, served, archVars>>

AppendByte ==
  /\ present
  /\ Len(content) < MaxBytes
  /\ \E c \in Char : content' = Append(content, c)
  /\ UNCHANGED <<present, backlog, nconn, pc, sessionVars, peer, served, archVars>>

\* the writer of an append-only log
GrowByte ==
  /\ present
  /\ Len(content) < MaxGrow
  /\ \E c \in Char : content' = Append(content, c)
  /\ UNCHANGED <<present, backlog, nconn, pc, sessionVars, peer, served, archVars>>

Truncate ==
  /\ present
  /\ \E n \in 0..(Len(content) - 1) : content' = SubSeq(content, 1, n)
  /\ UNCHANGED <<present, backlog, nconn, pc, sessionVars, peer, served, archVars>>

\* The file is unlinked.  A handler that has it open goes on reading the
\* unlinked file, which nobody writes any more: the reads it has still to
\* make return the rest of its bytes and then nothing, whatever happens
\* meanwhile, so their outcome is recorded here.
Delete ==
  /\ present
  /\ present' = FALSE
  /\ content' = <<>>
  /\ IF pc \in {"reading", "log_reading"} /\ handle = "live"
     THEN LET r == feed(lines_read, pending, read_data) IN
            /\ handle' = "unlinked"
            /\ pos' = pos + Len(read_data)
            /\ lines_read' = IF r.pending = <<>> THEN r.lines
                                                ELSE Append(r.lines, r.pending)
            /\ pending' = <<>>
     ELSE UNCHANGED readVars
  /\ UNCHANGED <<backlog, nconn, pc, polled, missedAt, start, offset, last_size,
                 current_size, emitted, peer, served, archVars>>

\* ------------------------------------------------------------- clients
\* a client connects and sends one of the requests in reqs; the connection
\* waits in the listen queue until the server accepts it
ConnectOf(reqs) ==
  /\ nconn < MaxConns
  /\ \E r \in reqs : backlog' = Append(backlog, r)
  /\ nconn' = nconn + 1
  /\ UNCHANGED <<fileVars, pc, sessionVars, peer, served, archVars>>

Connect == ConnectOf(Requests)

Disconnect ==
  /\ pc \in {"exists", "stat", "read", "reading", "keepalive"}
  /\ peer = "connected"
  /\ peer' = "gone"
  /\ UNCHANGED <<fileVars, backlog, nconn, pc, sessionVars, served, archVars>>

\* ---------------------------------------------------------- the server
\* serve_forever takes the next connection only when no handler is running.
\* stream_log, lines 60-76: headers, offset from the query, last_size = 0.
\* The headers are written (line 67) before the try of line 74: to a
\* subscriber that has reset its connection while waiting the write raises
\* ConnectionResetError, nothing catches it and the handler is left before
\* the offset is parsed.
AcceptStream ==
  /\ pc = "accept"
  /\ backlog # <<>>
  /\ Head(backlog).kind = "stream"
  /\ backlog' = Tail(backlog)
  /\ \/ /\ polled' = "none"
        /\ missedAt' = -1
        /\ start' = Head(backlog).offset
        /\ offset' = Head(backlog).offset
        /\ last_size' = 0
        /\ current_size' = 0
        /\ emitted' = <<>>
        /\ peer' = "connected"
        /\ pc' = "exists"
     \/ /\ pc' = "crashed"
        /\ peer' = "gone"
        /\ UNCHANGED <<polled, missedAt, start, offset, last_size,
                       current_size, emitted>>
  /\ UNCHANGED <<fileVars, nconn, readVars, served, archVars>>

\* serve_log, lines 39-48: the headers, then `if CURRENT_LOG.exists()`;
\* with no file the body is the empty array.  A write to a client that has
\* reset its connection raises, here as in the other handlers, and the
\* request ends without a response.
serve_log ==
  /\ pc = "accept"
  /\ backlog # <<>>
  /\ Head(backlog).kind = "log"
  /\ backlog' = Tail(backlog)
  /\ \/ /\ IF present
           THEN pc' = "log_open" /\ UNCHANGED served
           ELSE /\ served' = Append(served,
                     Response(LogReq, 200, {ContentJson, AllowOrigin, NoCache},
                              <<>>, NoPath))
                /\ UNCHANGED pc
        /\ UNCHANGED peer
     \/ /\ pc' = "crashed"
        /\ peer' = "gone"
        /\ UNCHANGED served
  /\ UNCHANGED <<fileVars, nconn, sessionVars, archVars>>

\* do_GET lines 33-35 and serve_specific_log
serve_specific_log ==
  /\ pc = "accept"
  /\ backlog # <<>>
  /\ Head(backlog).kind = "archived"
  /\ backlog' = Tail(backlog)
  /\ LET req == Head(backlog)
         path == log_path(req.segs)
     IN \/ /\ served' = Append(served,
                IF ~exists(path) \/ ~endswith(log_name(req.segs), JSONL)
                THEN Response(req, 404, {}, <<>>, NoPath)
                ELSE IF IsFile(resolve(path))
                     THEN Response(req, 200, {ContentJson, AllowOrigin},
                                   decodeLines(readlines(FileBytes(resolve(path)))),
                                   resolve(path))
                     \* open() of a directory raises
                     ELSE Response(req, 500, {ContentJson, AllowOrigin}, <<>>, NoPath))
           /\ UNCHANGED <<pc, peer>>
        \* a write to a client that has reset its connection raises
        \/ /\ pc' = "crashed"
           /\ peer' = "gone"
           /\ UNCHANGED served
  /\ UNCHANGED <<fileVars, nconn, sessionVars, archVars>>

\* list_logs, lines 110-127
list_logs ==
  /\ pc = "accept"
  /\ backlog # <<>>
  /\ Head(backlog).kind = "list"
  /\ backlog' = Tail(backlog)
  /\ LET names == IF exists(LOG_DIR) THEN sortedReverse(glob) ELSE <<>>
     IN \/ /\ served' = Append(served,
                Response(Head(backlog), 200, {ContentJson, AllowOrigin},
                         [k \in 1..Len(names) |-> LogEntry(names[k])], NoPath))
           /\ UNCHANGED <<pc, peer>>
        \* a write to a client that has reset its connection raises
        \/ /\ pc' = "crashed"
           /\ peer' = "gone"
           /\ UNCHANGED served
  /\ UNCHANGED <<fileVars, nconn, sessionVars, archVars>>

\* variant of Exists: with no file the loop starts over at once
ExistsSkip ==
  /\ pc = "exists"
  /\ pc' = IF present THEN "stat" ELSE "exists"
  /\ polled' = IF present THEN polled ELSE "missing"
  /\ missedAt' = IF present THEN missedAt ELSE Len(emitted)
  /\ UNCHANGED <<fileVars, backlog, nconn, start, offset, last_size,
                 current_size, emitted, readVars, peer, served, archVars>>

\* variant of Exists: with no file the recorded size starts over
ExistsReset ==
  /\ pc = "exists"
  /\ pc' = IF present THEN "stat" ELSE "keepalive"
  /\ polled' = IF present THEN polled ELSE "missing"
  /\ missedAt' = IF present THEN missedAt ELSE Len(emitted)
  /\ last_size' = IF present THEN last_size ELSE 0
  /\ UNCHANGED <<fileVars, backlog, nconn, start, offset,
                 current_size, emitted, readVars, peer, served, archVars>>

\* line 79: if CURRENT_LOG.exists()
Exists ==
  /\ pc = "exists"
  /\ pc' = IF present THEN "stat" ELSE "keepalive"
  /\ polled' = IF present THEN polled ELSE "missing"
  /\ missedAt' = IF present THEN missedAt ELSE Len(emitted)
  /\ UNCHANGED <<fileVars, backlog, nconn, start, offset, last_size,
                 current_size, emitted, readVars, peer, served, archVars>>

\* variant of Stat: the file is re-read whether or not its size changed
StatAlways ==
  /\ pc = "stat"
  /\ IF present
     THEN /\ current_size' = Len(content)
          /\ pc' = "read"
          /\ UNCHANGED polled
     ELSE /\ pc' = "crashed"
          /\ UNCHANGED <<current_size, polled>>
  /\ UNCHANGED <<fileVars, backlog, nconn, missedAt, readVars, start, offset, last_size, emitted, peer, served, archVars>>

\* lines 80-82: stat, then compare with last_size.  A file deleted since
\* the existence check raises FileNotFoundError, which nothing catches.
Stat ==
  /\ pc = "stat"
  /\ IF present
     THEN /\ current_size' = Len(content)
          /\ pc' = IF Len(content) # last_size THEN "read" ELSE "keepalive"
          /\ polled' = IF Len(content) # last_size THEN polled ELSE "same"
     ELSE /\ pc' = "crashed"
          /\ UNCHANGED <<current_size, polled>>
  /\ UNCHANGED <<fileVars, backlog, nconn, missedAt, readVars, start, offset, last_size, emitted, peer, served, archVars>>

\* lines 83 and 49: open(CURRENT_LOG, "r").  A file deleted since the
\* existence check raises FileNotFoundError, which nothing catches.
Open ==
  /\ pc \in {"read", "log_open"}
  /\ IF present
     THEN /\ pc' = IF pc = "read" THEN "reading" ELSE "log_reading"
          /\ pos' = 0
          /\ lines_read' = <<>>
          /\ pending' = <<>>
          /\ handle' = "live"
     ELSE /\ pc' = "crashed"
          /\ UNCHANGED readVars
  /\ UNCHANGED <<fileVars, backlog, nconn, polled, missedAt, start, offset,
                 last_size, current_size, emitted, peer, served, archVars>>

\* lines 84 and 50: f.readlines() and `for line in f` read f with one
\* read() after another; this is a read() that is not the last.  Bytes read
\* are cut into lines at each newline; a read() that returns nothing while
\* bytes are pending makes of them a line, and the reading goes on.
Read ==
  /\ pc \in {"reading", "log_reading"}
  /\ read_data # <<>> \/ pending # <<>>
  /\ pos' = pos + Len(read_data)
  /\ IF read_data = <<>>
     THEN /\ lines_read' = Append(lines_read, pending)
          /\ pending' = <<>>
     ELSE LET r == feed(lines_read, pending, read_data) IN
            /\ lines_read' = r.lines
            /\ pending' = r.pending
  /\ UNCHANGED <<fileVars, backlog, nconn, pc, polled, missedAt, start, offset,
                 last_size, current_size, emitted, handle, peer, served, archVars>>

\* serve_log, lines 50-58: the read() that returns nothing with no byte
\* pending ends the iteration; the records of the lines read are the body
serve_logSend ==
  /\ pc = "log_reading"
  /\ read_data = <<>> /\ pending = <<>>
  /\ \/ /\ served' = Append(served,
             Response(LogReq, 200, {ContentJson, AllowOrigin, NoCache},
                      decodeLines(lines_read), CURRENT_LOG))
        /\ pc' = "accept"
        /\ UNCHANGED peer
     \* the write of the body (line 58) to a client that has gone raises
     \/ /\ pc' = "crashed"
        /\ peer' = "gone"
        /\ UNCHANGED served
  /\ pos' = 0
  /\ lines_read' = <<>>
  /\ pending' = <<>>
  /\ handle' = "live"
  /\ UNCHANGED <<fileVars, backlog, nconn, polled, missedAt, start, offset,
                 last_size, current_size, emitted, archVars>>

\* variant of ReadSend: an offset beyond the lines read is pulled back to
\* their number
ReadSendReset ==
  /\ pc = "reading"
  /\ read_data = <<>> /\ pending = <<>>
  /\ \E budget \in Budgets(Len(lines_read)) :
       LET r == sendNew(lines_read, 0, offset, emitted, budget) IN
         /\ offset' = IF r.offset > Len(lines_read) THEN Len(lines_read) ELSE r.offset
         /\ emitted' = r.out
         /\ polled' = "read"
         /\ IF r.failed
            THEN pc' = "closed" /\ peer' = "broken" /\ UNCHANGED last_size
            ELSE pc' = "keepalive" /\ last_size' = current_size
                 /\ UNCHANGED peer
  /\ pos' = 0
  /\ lines_read' = <<>>
  /\ pending' = <<>>
  /\ handle' = "live"
  /\ UNCHANGED <<fileVars, backlog, nconn, missedAt, start, current_size, served, archVars>>

\* lines 84-100: the read() that returns nothing with no byte pending ends
\* readlines(); the new lines are sent and the size of the stat is recorded
ReadSend ==
  /\ pc = "reading"
  /\ read_data = <<>> /\ pending = <<>>
  /\ \E budget \in Budgets(Len(lines_read)) :
       LET r == sendNew(lines_read, 0, offset, emitted, budget) IN
         /\ offset' = r.offset
         /\ emitted' = r.out
         /\ polled' = "read"
         /\ IF r.failed
            THEN pc' = "closed" /\ peer' = "broken" /\ UNCHANGED last_size
            ELSE pc' = "keepalive" /\ last_size' = current_size
                 /\ UNCHANGED peer
  /\ pos' = 0
  /\ lines_read' = <<>>
  /\ pending' = <<>>
  /\ handle' = "live"
  /\ UNCHANGED <<fileVars, backlog, nconn, missedAt, start, current_size, served, archVars>>

\* variant of Keepalive: a failed write does not end the loop
KeepaliveIgnore ==
  /\ pc = "keepalive"
  /\ \E ok \in (IF peer = "connected" THEN {TRUE} ELSE BOOLEAN) :
       /\ pc' = "exists"
       /\ peer' = IF ok THEN peer ELSE "broken"
  /\ polled' = "none"
  /\ UNCHANGED <<fileVars, backlog, nconn, missedAt, readVars, start, offset, last_size,
                 current_size, emitted, served, archVars>>

\* lines 103-105: keepalive, flush, sleep
Keepalive ==
  /\ pc = "keepalive"
  /\ \E ok \in (IF peer = "connected" THEN {TRUE} ELSE BOOLEAN) :
       /\ pc' = IF ok THEN "exists" ELSE "closed"
       /\ peer' = IF ok THEN peer ELSE "broken"
  /\ polled' = "none"
  /\ UNCHANGED <<fileVars, backlog, nconn, missedAt, readVars, start, offset, last_size,
                 current_size, emitted, served, archVars>>

\* the handler returns (lines 107-108) or its exception reaches
\* socketserver's handle_error; either way the handler's locals and its
\* socket are gone and the server loop goes on
Finish ==
  /\ pc \in {"closed", "crashed"}
  /\ pc' = "accept"
  /\ polled' = "none"
  /\ missedAt' = -1
  /\ start' = 0
  /\ offset' = 0
  /\ last_size' = 0
  /\ current_size' = 0
  /\ emitted' = <<>>
  /\ peer' = "connected"
  /\ UNCHANGED <<fileVars, backlog, nconn, readVars, served, archVars>>

\* One subscriber: a single GET /api/log/stream?offset=o is waiting when
\* the server starts, and the external writer does what it likes.
Init ==
  /\ InitServer
  /\ \E o \in 0..MaxStart : backlog = <<StreamReq(o)>>
  /\ nconn = 1

Session ==
  AcceptStream \/ Exists \/ Stat \/ Open \/ Read \/ ReadSend \/ Keepalive \/ Finish

Next ==
  \/ Create \/ AppendByte \/ Truncate \/ Delete
  \/ Disconnect
  \/ Session

Spec == Init /\ [][Next]_vars

\* The same subscriber, with a log that only grows by appending.
NextAppend ==
  \/ Create \/ GrowByte
  \/ Disconnect
  \/ Session

SpecAppend == Init /\ [][NextAppend]_vars

\* The server from its start: clients connect at any time, the single
\* thread of socketserver.TCPServer handles one request at a time.
InitListen ==
  /\ InitServer
  /\ backlog = <<>>
  /\ nconn = 0

NextServer ==
  \/ Create \/ AppendByte
  \/ Connect \/ Disconnect
  \/ serve_log \/ serve_logSend
  \/ Session

SpecServer == InitListen /\ [][NextServer]_vars

\* Requests for archived logs, over every population of the directories.
InitArchive ==
  /\ present = FALSE
  /\ content = <<>>
  /\ pc = "accept"
  /\ polled = "none"
  /\ missedAt = -1
  /\ start = 0
  /\ offset = 0
  /\ last_size = 0
  /\ current_size = 0
  /\ emitted = <<>>
  /\ pos = 0
  /\ lines_read = <<>>
  /\ pending = <<>>
  /\ handle = "live"
  /\ peer = "connected"
  /\ served = <<>>
  /\ backlog = <<>>
  /\ nconn = 0
  /\ logdir \in BOOLEAN
  /\ files \in SUBSET CandidateFiles
  /\ \A f \in files : f[1] = LogDirName => logdir

ConnectArchived == ConnectOf(ArchiveRequests)

NextArchive ==
  ConnectArchived \/ serve_specific_log \/ list_logs \/ serve_log \/ Finish

SpecArchive == InitArchive /\ [][NextArchive]_vars

\* every byte sequence a log of at most n bytes can hold
Contents(n) == UNION {[1..k -> Char] : k \in 0..n}

\* One subscriber of a log that never changes again, whatever it holds in
\* at most n bytes.
InitLog(n) ==
  /\ present \in BOOLEAN
  /\ content \in (IF present THEN Contents(n) ELSE {<<>>})
  /\ \E o \in 0..MaxStart : backlog = <<StreamReq(o)>>
  /\ nconn = 1
  /\ pc = "accept"
  /\ polled = "none"
  /\ missedAt = -1
  /\ start = 0
  /\ offset = 0
  /\ last_size = 0
  /\ current_size = 0
  /\ emitted = <<>>
  /\ pos = 0
  /\ lines_read = <<>>
  /\ pending = <<>>
  /\ handle = "live"
  /\ peer = "connected"
  /\ served = <<>>
  /\ logdir = TRUE
  /\ files = {}

InitQuiet == InitLog(MaxBytes)

InitStatic == InitLog(MaxLog)

NextQuiet == Disconnect \/ Session

\* the keepalive write that raises BrokenPipeError / ConnectionResetError
KeepaliveFails == Keepalive /\ pc' = "closed"

\* the subscriber of a log of up to MaxLog bytes that is complete
SpecStatic == InitStatic /\ [][NextQuiet]_vars

\* The server thread keeps running: after time.sleep(0.5) the loop goes on
\* (weak fairness of the session's steps).  A socket whose peer has gone
\* accepts only finitely many writes before they raise, and the loop writes
\* a keepalive in every iteration (strong fairness of the failing write).
SpecQuiet ==
  /\ InitQuiet
  /\ [][NextQuiet]_vars
  /\ WF_vars(Session)
  /\ SF_vars(KeepaliveFails)

\* ---------------------------------------------------------------- claims
Events(out) == [k \in 1..Len(out) |-> out[k].event]

\* every line of the log is a well-formed record
WellFormed(bytes) ==
  \A k \in 1..Len(readlines(bytes)) :
    LET line == strip(readlines(bytes)[k]) IN line # <<>> /\ decodes(line)

\* the session has finished a poll that saw the log as it is now
CaughtUp == pc = "exists" /\ present /\ last_size = Len(content)

\* C1: on a log that only grows by appending, once a session started at
\* offset 0 has polled the final contents and these are all well-formed
\* lines, the events it has emitted are exactly read_all of the contents.
C1_Completeness ==
  (start = 0 /\ CaughtUp /\ WellFormed(content))
    => Events(emitted) = read_all(present, content)

SessionOpen == pc \in {"exists", "stat", "read", "reading", "keepalive"}
InHandler == pc # "accept"

\* the step ends the read of a poll and sends what it read (lines 84-100)
ReadStep == pc = "reading" /\ pc' # "reading"

\* the frames written by this step
newFrames == SubSeq(emitted', Len(emitted) + 1, Len(emitted'))

\* number of successfully decoded records among the first i lines: the
\* position line i's record has in read_all
recordsBefore(lines, i) == Len(decodeLines(SubSeq(lines, 1, i)))

\* C2: every event frame a poll writes carries as its index the 0-based
\* position of its record among the successfully decoded records of the log.
C2_IndexIsRecordPosition ==
  [][ReadStep =>
       \A k \in (Len(emitted) + 1)..Len(emitted') :
         emitted'[k].index = recordsBefore(lines_read, emitted'[k].index)]_vars

\* some line at or past the offset decodes and has not been delivered
Undelivered ==
  \E i \in offset..(Len(readlines(content)) - 1) :
    LET line == strip(readlines(content)[i + 1]) IN line # <<>> /\ decodes(line)

\* C3: sessions are independent: a connection that is waiting can always be
\* taken up by the server, also while a stream session is open; it does not
\* have to wait for that session to close.
C3_Concurrent == backlog # <<>> => ENABLED (AcceptStream \/ serve_log)

\* C4: a poll that re-reads a log that has shrunk and finds fewer records
\* than the offset emits no event and resets the offset to the number of
\* records found.
C4_TruncationHeals ==
  [][(ReadStep /\ current_size < last_size
        /\ Len(decodeLines(lines_read)) < offset) =>
       (emitted' = emitted /\ offset' = Len(decodeLines(lines_read)))]_vars

\* C5: within one session no step leaves the offset smaller than it was,
\* whatever the writer does to the file between polls.
C5_OffsetMonotone ==
  [][(InHandler /\ pc' # "accept") => offset' >= offset]_vars

\* a poll has re-read a log that now has fewer lines than the offset reached
\* by delivering events
W_C5_PolledShrunkLog ==
  /\ pc = "keepalive" /\ polled = "read"
  /\ present /\ last_size = Len(content)
  /\ emitted # <<>>
  /\ Len(readlines(content)) < offset

\* C6: after each poll of a growing log the offset equals the number of
\* valid records decoded, and never exceeds it, blank and malformed lines
\* and the requested starting offset notwithstanding.
C6_OffsetIsRecordCount ==
  (CaughtUp /\ last_size > 0) => offset = Len(read_all(present, content))

\* C7: a poll that finds the file's size equal to the recorded size emits
\* nothing and leaves offset and recorded size as they are: inside a session
\* these change only in the read of a poll whose stat saw a different size.
C7_Idempotent ==
  [][(SessionOpen /\ pc' # "accept" /\
        <<emitted, offset, last_size>>' # <<emitted, offset, last_size>>)
       => (pc = "reading" /\ current_size # last_size)]_vars

\* a poll found the size unchanged although the file was replaced by one
\* with an undelivered record
W_C7_SameSizePoll ==
  /\ pc = "keepalive" /\ polled = "same"
  /\ last_size > 0
  /\ Undelivered

\* three lines: well-formed, malformed (not blank), well-formed
GoodBadGoodLines(lines) ==
  /\ Len(lines) = 3
  /\ decodes(strip(lines[1]))
  /\ strip(lines[2]) # <<>> /\ ~decodes(strip(lines[2]))
  /\ decodes(strip(lines[3]))

TwoGoodOf(lines) == <<loads(strip(lines[1])), loads(strip(lines[3]))>>

GoodBadGood(bytes) == GoodBadGoodLines(readlines(bytes))

TwoGood(bytes) == TwoGoodOf(readlines(bytes))

\* C8: blank and malformed lines are skipped without ending the poll: with
\* the peer connected, the read of a poll ends in the keepalive and writes
\* exactly the records of the lines it read from the offset on; a malformed
\* line between two well-formed ones gives exactly the two records, in
\* order, to a session that reads them from offset 0 and as the snapshot of
\* such a log.
C8_FaultTolerance ==
  [][(ReadStep /\ peer = "connected") =>
       /\ pc' = "keepalive"
       /\ Events(newFrames) =
            decodeLines(SubSeq(lines_read, offset + 1, Len(lines_read)))
       /\ (GoodBadGoodLines(lines_read) /\ offset = 0) =>
             Events(newFrames) = TwoGoodOf(lines_read)
       /\ GoodBadGood(content) =>
             read_all(present, content) = TwoGood(content)]_vars

W_C8_TwoOfThree ==
  /\ pc = "keepalive" /\ polled = "read"
  /\ start = 0
  /\ present /\ GoodBadGood(content)
  /\ Events(emitted) = TwoGood(content)

\* the write of the headers of a stream response (line 67) raises
HeaderWriteFails ==
  /\ pc = "accept" /\ pc' = "crashed"
  /\ backlog # <<>> /\ Head(backlog).kind = "stream"

\* C10: the write of an event frame or of a keepalive that fails ends the
\* session as a normal return of the handler, and a failed write of the
\* headers ends it before its first poll: from the failed write on nothing
\* is polled, read or written.
C10_ClosedOnFailedWrite ==
  [][/\ peer' = "broken" => pc' = "closed"
     /\ (peer = "broken" /\ peer' = "broken") =>
           UNCHANGED <<pc, polled, emitted, offset, last_size, current_size>>
     /\ HeaderWriteFails =>
           UNCHANGED <<polled, emitted, offset, last_size, current_size>>
     /\ (pc = "crashed" /\ peer = "gone" /\ pc' # "accept") =>
           UNCHANGED <<pc, polled, emitted, offset, last_size, current_size>>]_vars

\* an event write failed in the middle of a poll, after an earlier event
\* had been written and with a record still to deliver
W_C10_FailedMidPoll ==
  /\ pc = "closed" /\ peer = "broken"
  /\ polled = "read"
  /\ emitted # <<>>
  /\ Undelivered

\* the file lies strictly inside the log directory
InLogDir(path) == Len(path) = 2 /\ path[1] = LogDirName /\ path[2] \notin {UpName, EmptyName}

\* a response to GET /api/log/<name> is a 404, or the records of an existing
\* file inside the log directory whose name has the archived-log extension
SafeAnswer(r) ==
  \/ r.status = 404 /\ r.file = NoPath
  \/ /\ r.status = 200
     /\ InLogDir(r.file) /\ IsFile(r.file)
     /\ endswith(r.file[2], JSONL)
     /\ r.body = decodeLines(readlines(FileBytes(r.file)))

\* the answers given to GET /api/log/<name>
Answers == {r \in {served[k] : k \in 1..Len(served)} : r.req.kind = "archived"}

\* C9: every answer to GET /api/log/<name> is a 404 or the records of an
\* existing file strictly inside the log directory whose name has the
\* extension, and the names ../secret.jsonl and notalog.txt are answered 404.
C9_PathSafety ==
  \A r \in Answers :
    /\ SafeAnswer(r)
    /\ r.req.segs \in {<<UpName, Secret>>, <<NotALog>>} => r.status = 404

\* What the code does keep: no answer comes from outside the log directory,
\* a last segment without the extension is answered 404, and ../secret.jsonl
\* is answered from the log directory's own secret.jsonl when there is one.
ContainedAnswers ==
  \A r \in Answers :
    /\ SafeAnswer(r)
    /\ ~endswith(log_name(r.req.segs), JSONL) => r.status = 404
    /\ r.req.segs = <<UpName, Secret>> =>
          IF Inside(Secret) \in files
          THEN r.status = 200 /\ r.file = Inside(Secret)
          ELSE r.status = 404

\* C13: when the current log disappears in the middle of a poll, after the
\* existence check and before the stat or before the read, the poll is that
\* of a log not present yet: no event, cursor unchanged, and the session
\* goes on to its keepalive.
C13_VanishedMidPoll ==
  [][(pc \in {"stat", "read"} /\ pc' # pc /\ ~present) =>
       (pc' = "keepalive" /\ UNCHANGED <<emitted, offset, last_size>>)]_vars

\* C14: in an open session polls and keepalives alternate: a poll starts
\* and runs only with no finished poll awaiting its keepalive, and the
\* keepalive is written only after a finished poll, be it of a missing
\* file, of a file of unchanged size or of a file that was read.
C14_PollKeepaliveCycle ==
  /\ pc \in {"exists", "stat", "read", "reading"} => polled = "none"
  /\ pc = "keepalive" => polled \in {"missing", "same", "read"}

\* the session is past the keepalive of a poll that read records and has
\* finished another poll, which found the size unchanged
W_C14_SecondCycle ==
  /\ pc = "keepalive" /\ polled = "same"
  /\ emitted # <<>>

\* the step is the existence check of a poll, made while there is no file
MissingStep == pc = "exists" /\ pc' # "exists" /\ ~present

\* a poll of this session has found no file
Missed == missedAt >= 0

\* the records of the lines this read returned, from the offset on
readFromOffset == decodeLines(SubSeq(lines_read, offset + 1, Len(lines_read)))

\* C15 as stated: a poll that finds no file emits nothing, leaves offset
\* and recorded size alone and goes on to the keepalive; and once the file
\* has appeared, a poll of it by a connected session leaves no record at or
\* past the offset undelivered: one that ends at the stat leaves none in the
\* file, one that reads sends those of the lines it read.
C15_MissingThenDelivered ==
  [][/\ MissingStep =>
          (pc' = "keepalive" /\ UNCHANGED <<emitted, offset, last_size>>)
     /\ (Missed /\ present /\ peer = "connected"
           /\ pc = "stat" /\ pc' = "keepalive") => ~Undelivered'
     /\ (Missed /\ ReadStep /\ peer = "connected") =>
          Events(newFrames) = readFromOffset]_vars

\* C15, amended: a poll that finds no file emits nothing, leaves offset and
\* recorded size alone and goes on to the keepalive; and once the file has
\* appeared, a poll that finds its size other than the recorded one goes on
\* to read it, and a read that ends with the peer connected writes exactly
\* the records of the lines it read from the offset on.
C15_MissingFileFrame ==
  [][/\ MissingStep =>
          (pc' = "keepalive" /\ UNCHANGED <<emitted, offset, last_size>>)
     /\ (Missed /\ present /\ pc = "stat" /\ pc' # "stat"
           /\ Len(content) # last_size) => pc' = "read"
     /\ (Missed /\ ReadStep /\ peer = "connected") =>
          Events(newFrames) = readFromOffset]_vars

\* a poll found no file, and a later poll of the same session read the file
\* and emitted an event
W_C15_DeliveredAfterMissing ==
  /\ pc = "keepalive" /\ polled = "read"
  /\ Missed /\ Len(emitted) > missedAt

\* C16: the indices of the events of a session are strictly increasing and
\* none is below the starting offset, whatever the writer does to the file.
C16_IndicesIncrease ==
  \A k \in 1..Len(emitted) :
    /\ emitted[k].index >= start
    /\ k > 1 => emitted[k - 1].index < emitted[k].index

\* two events were emitted and the file then shrank below the offset
W_C16_ShrunkAfterTwo ==
  /\ SessionOpen
  /\ Len(emitted) >= 2
  /\ present /\ Len(readlines(content)) < offset

RECURSIVE joined(_)
\* the bytes of a sequence of lines
joined(lines) == IF lines = <<>> THEN <<>> ELSE Head(lines) \o joined(Tail(lines))

\* some line this read returned, at or past the offset, decodes
UndeliveredRead ==
  \E i \in offset..(Len(lines_read) - 1) :
    LET line == strip(lines_read[i + 1]) IN line # <<>> /\ decodes(line)

\* C17: when the writer has appended between the stat and the end of the
\* read of a poll, the read has taken every byte of the file, those appended
\* included, and with the peer connected it writes exactly the records of
\* the lines it read from the offset on, so that, the lines read being those
\* of the file, none is left undelivered; the recorded size is the older
\* one of the stat and differs from the file's; a stat that sees a size
\* other than the recorded one is followed by the read, and a read that
\* returns no record at or past the offset, such as that re-read, emits
\* nothing.
C17_AppendDuringPoll ==
  [][/\ (ReadStep /\ peer = "connected" /\ Len(content) > current_size) =>
          /\ joined(lines_read) = content
          /\ Events(newFrames) = readFromOffset
          /\ lines_read = readlines(content) => ~Undelivered'
          /\ last_size' = current_size /\ last_size' # Len(content')
     /\ (pc = "stat" /\ pc' # "stat" /\ present /\ Len(content) # last_size) =>
          pc' = "read"
     /\ (ReadStep /\ ~UndeliveredRead) => emitted' = emitted]_vars

\* every record of the log has been emitted, the last of them by a read
\* whose stat had seen a file that did not hold it yet
W_C17_ReadPastStat ==
  /\ pc = "keepalive" /\ polled = "read"
  /\ start = 0 /\ present
  /\ last_size < Len(content)
  /\ Events(emitted) = read_all(present, content)
  /\ Len(read_all(TRUE, SubSeq(content, 1, last_size))) < Len(emitted)

\* C18: a read, with the peer connected: a line it returned unterminated,
\* as a last line seen mid-write is, that fails to decode gets no frame and
\* the offset does not go past it; and when the last line it returned is at
\* or past the offset and decodes, as once the writer has completed it, the
\* last frame written is that record with the line's index and the offset
\* moves just past it.
C18_PartialLineKept ==
  [][(ReadStep /\ peer = "connected") =>
       LET n == Len(lines_read) IN
         /\ \A i \in offset..(n - 1) :
              LET line == lines_read[i + 1] IN
                (line[Len(line)] # NL /\ ~decodes(strip(line))) =>
                   /\ offset' <= i
                   /\ \A k \in 1..Len(newFrames) : newFrames[k].index # i
         /\ (n > 0 /\ n - 1 >= offset /\ decodes(strip(lines_read[n]))) =>
              /\ newFrames # <<>>
              /\ newFrames[Len(newFrames)] = Frame(n - 1, loads(strip(lines_read[n])))
              /\ offset' = n]_vars

\* What the code does keep: a line that fails to decode gets no frame, and
\* the offset after the read is just past the last line that got one.
UndecodedLineSkipped ==
  [][(ReadStep /\ peer = "connected") =>
       /\ \A k \in 1..Len(newFrames) :
            decodes(strip(lines_read[newFrames[k].index + 1]))
       /\ newFrames # <<>> => offset' = newFrames[Len(newFrames)].index + 1
       /\ newFrames = <<>> => offset' = offset]_vars

\* C19: once the peer of a session that is in its loop has disconnected
\* the session reaches Closed, also with a log that never changes: each
\* iteration writes a keepalive, and the write that fails ends the session.
C19_DisconnectedCloses == (SessionOpen /\ peer = "gone") ~> (pc = "closed")

\* the session ended on a keepalive written to a peer that had gone, with
\* nothing new in the log to send
W_C19_ClosedOnKeepalive ==
  /\ pc = "closed" /\ peer = "broken"
  /\ polled = "none"
  /\ emitted = <<>>

\* every finished response with a JSON body
JsonAnswers == {r \in {served[k] : k \in 1..Len(served)} : r.status = 200}

\* C11: every JSON response, of GET /api/log, GET /api/logs and
\* GET /api/log/<name>, carries both the permissive cross-origin header and
\* the no-caching header.
C11_JsonHeaders ==
  \A r \in JsonAnswers : AllowOrigin \in r.headers /\ NoCache \in r.headers

\* What the code does keep: every JSON response allows any origin, and the
\* snapshot of the current log is the one that forbids caching.
JsonHeadersSent ==
  \A r \in JsonAnswers :
    /\ ContentJson \in r.headers /\ AllowOrigin \in r.headers
    /\ NoCache \in r.headers <=> r.req.kind = "log"

\* the answers given to GET /api/logs
Listings == {r \in {served[k] : k \in 1..Len(served)} : r.req.kind = "list"}

\* the file names of the log directory that follow the archived naming
\* convention ralph_<...>.jsonl
ArchivedNames ==
  {n \in {Ralph1, Ralph2, Secret, NotALog} :
     Inside(n) \in files /\ n[1] = "ralph_" /\ n[Len(n)] = JSONL}

\* C12: a listing is a 200 whose entries are exactly the files of the log
\* directory with an archived name, one entry each, in descending order of
\* name (ralph_2.jsonl before ralph_1.jsonl); with the log directory absent
\* or holding no such file the listing is empty.
C12_Listing ==
  \A r \in Listings :
    /\ r.status = 200
    /\ {r.body[k].name : k \in 1..Len(r.body)} = ArchivedNames
    /\ Len(r.body) = Cardinality(ArchivedNames)
    /\ \A k \in 1..(Len(r.body) - 1) : nameLess(r.body[k + 1].name, r.body[k].name)
    /\ ArchivedNames = {Ralph1, Ralph2} =>
          r.body[1].name = Ralph2 /\ r.body[2].name = Ralph1
    /\ (~logdir \/ ArchivedNames = {}) => r.body = <<>>

\* a listing of two archived logs was given from a directory that also
\* holds files of other names
W_C12_TwoListed ==
  \E r \in Listings :
    /\ Len(r.body) = 2
    /\ {Inside(Secret), Inside(NotALog)} \subseteq files
====
